---- MODULE Spec2Model ----
(***************************************************************************)
(* Local-signing plugin of wharfkit (src/src/index.ts): the transact       *)
(* plugin's beforeSign hook, the login plugin's afterLogin hook, teardown  *)
(* (onLogout) and the storage records they share.                          *)
(*                                                                         *)
(* Conventions.  An optional value (undefined / null in the source) is a   *)
(* sequence of length 0 or 1.  A string built or parsed by the source      *)
(* (storage key, JSON text of a record, key text) is a tuple of its parts. *)
(* Names are canonical strings, so Name.from(x).equals(y) is x = y.        *)
(***************************************************************************)
EXTENDS Integers, Sequences, FiniteSets, TLC

\* ---------------------------------------------------------------- bounds
\* number of key pairs PrivateKey.generate can hand out in one behaviour
MaxKeys == 3
\* largest number of actions in a transaction a caller hands to transact
MaxActions == 2
\* longest action list handed to createLinkAuthActions in a direct call
MaxListed == 2
\* largest number of config entries of a plugin built for a direct call
MaxEntries == 3

\* ------------------------------------------------------- program values
STORAGE_KEY_PREFIX == "localsession"

\* the session's account (context.accountName, session.actor) and chain id
Actor == "wharfkit1131"
ChainId == "73e4385a"

\* options.actionConfigs after the constructor's normalisation
actionConfigs ==
    << [contract |-> "gamecontract", actions |-> <<"play", "claim">>],
       [contract |-> "nftcontract",  actions |-> <<"equip">>] >>

getActionConfigs == actionConfigs

ConfigIdx == 1..Len(actionConfigs)
Contracts == {actionConfigs[i].contract : i \in ConfigIdx}

Range(s) == {s[i] : i \in 1..Len(s)}

\* ------------------------------------------------------------ key pairs
\* PrivateKey.generate('K1') for the n-th call, and privateKey.toPublic()
PrivateKeyOf(n) == <<"PVT_K1_", n>>
toPublic(priv) == <<"PUB_K1_", priv[2]>>
generateLocalKeyFixed(n) ==
    [privateKey |-> PrivateKeyOf(1), publicKey |-> toPublic(PrivateKeyOf(1))]
generateLocalKey(n) ==
    [privateKey |-> PrivateKeyOf(n), publicKey |-> toPublic(PrivateKeyOf(n))]

\* ------------------------------------------------------------- storage
getStorageKeyNoContract(contract) == <<STORAGE_KEY_PREFIX, "-", "local">>
getStorageKey(contract) == <<STORAGE_KEY_PREFIX, "-", contract>>
getPermissionName(contract) == contract

\* an entry of the same physical storage that the plugin does not own
ForeignKey == <<"wharf", "-", "session">>
ForeignValue == <<"blob">>
StorageKeys == {getStorageKey(c) : c \in Contracts} \cup {ForeignKey}

\* storage.read of a missing key
NoValue == <<>>

\* JSON.stringify / JSON.parse of a LocalSigningData record
StringifyDropsFlag(d) == <<d.privateKey, d.publicKey, FALSE>>
Stringify(d) == <<d.privateKey, d.publicKey, d.permissionSetup>>
Parse(s) == [privateKey |-> s[1], publicKey |-> s[2], permissionSetup |-> s[3]]

\* loadLocalSigningData: undefined (<<>>) when the read is falsy
loadLocalSigningData(st, contract) ==
    LET data == st[getStorageKey(contract)]
    IN  IF data # NoValue THEN <<Parse(data)>> ELSE <<>>

saveLocalSigningData(st, contract, d) ==
    [st EXCEPT ![getStorageKey(contract)] = Stringify(d)]

deleteLocalSigningDataWipe(st, contract) ==
    [k \in DOMAIN st |-> NoValue]
deleteLocalSigningData(st, contract) ==
    [st EXCEPT ![getStorageKey(contract)] = NoValue]

\* data?.permissionSetup and data?.privateKey on an optional record
PermissionSetupOf(opt) == opt # <<>> /\ opt[1].permissionSetup = TRUE
HasPrivateKey(opt) == opt # <<>> /\ opt[1].privateKey # <<>>

\* ------------------------------------------------------------- actions
\* the actions a caller may put in a transaction
UserAction(account, name) ==
    [account |-> account, name |-> name,
     authorization |-> <<[actor |-> Actor, permission |-> "active"]>>,
     data |-> [payload |-> "user"]]

UserActions ==
    { UserAction("gamecontract", "play"),
      UserAction("nftcontract", "equip"),
      UserAction("nftcontract", "play"),
      UserAction("eosio.token", "transfer") }

SeqsUpTo(S, n) == UNION {[1..k -> S] : k \in 0..n}
Transactions == SeqsUpTo(UserActions, MaxActions)

createUpdateAuthActionLocalName(account, contract, publicKey, parentPermission) ==
    [account |-> "eosio", name |-> "updateauth",
     authorization |-> <<[actor |-> account, permission |-> parentPermission]>>,
     data |-> [account |-> account,
               permission |-> "local",
               parent |-> parentPermission,
               auth |-> [threshold |-> 1,
                         keys |-> <<[key |-> publicKey, weight |-> 1]>>,
                         accounts |-> <<>>,
                         waits |-> <<>>]]]
\* parentPermission: NameType = 'active'
ParentOrDefault(opt) == IF opt = <<>> THEN "active" ELSE opt[1]

createUpdateAuthAction(account, contract, publicKey, parentPermission) ==
    [account |-> "eosio", name |-> "updateauth",
     authorization |-> <<[actor |-> account, permission |-> parentPermission]>>,
     data |-> [account |-> account,
               permission |-> getPermissionName(contract),
               parent |-> parentPermission,
               auth |-> [threshold |-> 1,
                         keys |-> <<[key |-> publicKey, weight |-> 1]>>,
                         accounts |-> <<>>,
                         waits |-> <<>>]]]

LinkAuthAction(account, contract, actionName) ==
    [account |-> "eosio", name |-> "linkauth",
     authorization |-> <<[actor |-> account, permission |-> "active"]>>,
     data |-> [account |-> account, code |-> contract, type |-> actionName,
               requirement |-> getPermissionName(contract)]]

RECURSIVE AllConfiguredActions(_)
AllConfiguredActions(i) ==
    IF i > Len(actionConfigs) THEN <<>>
    ELSE actionConfigs[i].actions \o AllConfiguredActions(i + 1)

createLinkAuthActionsAllConfigs(account, contract, actions) ==
    LET all == AllConfiguredActions(1)
    IN  [k \in 1..Len(all) |-> LinkAuthAction(account, contract, all[k])]
createLinkAuthActionsReversed(account, contract, actions) ==
    [k \in 1..Len(actions) |->
        LinkAuthAction(account, contract, actions[Len(actions) + 1 - k])]
createLinkAuthActions(account, contract, actions) ==
    [k \in 1..Len(actions) |-> LinkAuthAction(account, contract, actions[k])]

\* --------------------------------------------------------- ActionMatcher
\* the loop over this.actionConfigs, for a plugin constructed with configs
isLocalSigningActionOfFirstEntry(configs, action) ==
    \E i \in 1..Len(configs) :
        /\ action.account = configs[i].contract
        /\ \A j \in 1..(i - 1) : action.account # configs[j].contract
        /\ \E k \in 1..Len(configs[i].actions) :
               configs[i].actions[k] = action.name
isLocalSigningActionOf(configs, action) ==
    \E i \in 1..Len(configs) :
        /\ action.account = configs[i].contract
        /\ \E k \in 1..Len(configs[i].actions) :
               configs[i].actions[k] = action.name

isLocalSigningAction(action) == isLocalSigningActionOf(getActionConfigs, action)

allActionsAreLocalSome(actions) ==
    \E k \in 1..Len(actions) : isLocalSigningAction(actions[k])
allActionsAreLocal(actions) ==
    \A k \in 1..Len(actions) : isLocalSigningAction(actions[k])

\* ------------------------------------------------------------- signing
signingDigest(transaction, chainId) == <<chainId, transaction>>
signWithLocalKey(transaction, chainId, privateKeyWif) ==
    [key |-> toPublic(privateKeyWif),
     digest |-> signingDigest(transaction, chainId)]

\* ------------------------------------------------- beforeSign hook body
\* index of the first config whose record is stored but not yet set up
PendingConfigsNone(st) == {}
PendingConfigs(st) ==
    {i \in ConfigIdx :
        LET localData == loadLocalSigningData(st, actionConfigs[i].contract)
        IN  localData # <<>> /\ ~localData[1].permissionSetup}
LastPending(st) == CHOOSE i \in PendingConfigs(st) : \A j \in PendingConfigs(st) : i >= j
FirstPending(st) == CHOOSE i \in PendingConfigs(st) : \A j \in PendingConfigs(st) : i <= j

\* the two nested loops that look for the stored key (index.ts 379-395)
RECURSIVE ScanConfigs(_, _, _, _)
ScanConfigs(st, action, i, localData) ==
    IF i > Len(actionConfigs) THEN localData
    ELSE IF action.account = actionConfigs[i].contract
         THEN LET loaded == loadLocalSigningData(st, actionConfigs[i].contract)
              IN  IF PermissionSetupOf(loaded) THEN loaded
                  ELSE ScanConfigs(st, action, i + 1, loaded)
         ELSE ScanConfigs(st, action, i + 1, localData)

RECURSIVE ScanActions(_, _, _, _)
ScanActions(st, actions, k, localData) ==
    IF k > Len(actions) THEN localData
    ELSE LET found == ScanConfigs(st, actions[k], 1, localData)
         IN  IF PermissionSetupOf(found) THEN found
             ELSE ScanActions(st, actions, k + 1, found)

FindLocalDataOfFirstConfig(st, actions) ==
    loadLocalSigningData(st, actionConfigs[1].contract)
FindLocalData(st, actions) == ScanActions(st, actions, 1, <<>>)

\* the setup-injection branch for config i (index.ts 335-365)
InjectSetupOriginalFirst(accountName, st, i, actions) ==
    LET config == actionConfigs[i]
        localData == loadLocalSigningData(st, config.contract)[1]
        updateAuthAction ==
            createUpdateAuthAction(accountName, config.contract, localData.publicKey, "active")
        linkAuthActions ==
            createLinkAuthActions(accountName, config.contract, config.actions)
        allActions == actions \o <<updateAuthAction>> \o linkAuthActions
        marked == [localData EXCEPT !.permissionSetup = TRUE]
    IN  [response |-> <<[request |-> allActions, signatures |-> <<>>]>>,
         storage |-> saveLocalSigningData(st, config.contract, marked)]
InjectSetup(accountName, st, i, actions) ==
    LET config == actionConfigs[i]
        localData == loadLocalSigningData(st, config.contract)[1]
        updateAuthAction ==
            createUpdateAuthAction(accountName, config.contract, localData.publicKey, "active")
        linkAuthActions ==
            createLinkAuthActions(accountName, config.contract, config.actions)
        allActions == <<updateAuthAction>> \o linkAuthActions \o actions
        marked == [localData EXCEPT !.permissionSetup = TRUE]
    IN  [response |-> <<[request |-> allActions, signatures |-> <<>>]>>,
         storage |-> saveLocalSigningData(st, config.contract, marked)]

\* the whole hook for the session of accountName (context.accountName): its
\* response (<<>> for a bare return) and the storage it leaves
beforeSign(accountName, st, storageAvailable, actions) ==
    IF ~storageAvailable
    THEN [response |-> <<>>, storage |-> st]
    ELSE IF PendingConfigs(st) # {}
    THEN InjectSetup(accountName, st, FirstPending(st), actions)
    ELSE IF ~allActionsAreLocal(actions)
    THEN [response |-> <<>>, storage |-> st]
    ELSE LET localData == FindLocalData(st, actions)
         IN  IF ~PermissionSetupOf(localData) \/ ~HasPrivateKey(localData)
             THEN [response |-> <<>>, storage |-> st]
             ELSE [response |->
                       <<[request |-> actions,
                          signatures |->
                              <<signWithLocalKey(actions, ChainId,
                                                 localData[1].privateKey)>>]>>,
                   storage |-> st]

\* --------------------------------------------------------------- chain
\* effect of an accepted transaction on the account's permissions
RECURSIVE ApplyActions(_, _, _)
ApplyActions(ch, actions, k) ==
    IF k > Len(actions) THEN ch
    ELSE LET a == actions[k]
             next ==
                 IF a.account = "eosio" /\ a.name = "updateauth"
                 THEN [ch EXCEPT !.auth[a.data.permission] = <<a.data.auth.keys[1].key>>]
                 ELSE IF a.account = "eosio" /\ a.name = "linkauth"
                 THEN [ch EXCEPT !.links = @ \cup
                          {[code |-> a.data.code, type |-> a.data.type,
                            requirement |-> a.data.requirement]}]
                 ELSE ch
         IN  ApplyActions(next, actions, k + 1)

isSetupOfKeyPresence(st, storageAvailable, contract) ==
    IF ~storageAvailable THEN FALSE
    ELSE loadLocalSigningData(st, contract) # <<>>
\* isSetup(session, contract)
isSetupOf(st, storageAvailable, contract) ==
    IF ~storageAvailable THEN FALSE
    ELSE PermissionSetupOf(loadLocalSigningData(st, contract))

\* the consent check of afterLogin (index.ts 500-506); answers are
\* "approved" {approved: true}, "declined" {approved: false},
\* "noresponse" (prompt resolves to nothing) and "closed" (prompt throws)
PromptAnswers == {"approved", "declined", "noresponse", "closed"}
UserApprovedClosedFallsThrough(answer) == answer \in {"approved", "closed"}
UserApprovedAnyResponse(answer) == answer \in {"approved", "declined"}
UserApproved(answer) == answer = "approved"

\* ---------------------------------------------------------------- state
VARIABLES
    hasStorage,   \* the session has a storage (context.storage, session.storage)
    hasSession,   \* afterLogin's context carries the session
    hasBrowserStorage, \* window.localStorage exists (afterLogin's fallback)
    storage,      \* the physical storage: key -> stored text
    nextKey,      \* number of the next key pair PrivateKey.generate returns
    chain,        \* the account's on-chain permissions and links
    approved,     \* contracts the user approved since the last teardown
    failed,       \* contracts whose last afterLogin setup attempt failed
    pc,           \* position of the hook in flight
    li,           \* afterLogin: index of the config being processed
    localData,    \* afterLogin: its localData variable
    prompted,     \* afterLogin: contracts prompted in this invocation
    lastAnswer,   \* afterLogin: the answer to the last prompt
    loginError,   \* afterLogin: the last invocation ended by throwing
    inflight,     \* the request on its way to the wallet and the chain
    origin,       \* who called transact for the request in flight
    lastTx,       \* the actions of the last transact request
    response,     \* what beforeSign returned for lastTx
    lastOp,       \* the operation that made the last step
    call,         \* a direct call of one of the plugin's public methods
    result,       \* what that call returned
    writer,       \* the session whose afterLogin stored each contract's record
    flows         \* concurrent afterLogin invocations: position and locals of each

\* afterLogin invocations that run at the same time (two tabs of one
\* session): each has its own position in the hook and its own locals
Flows == {1, 2}
FlowIdle == [pc |-> "idle", li |-> 0, localData |-> <<>>, inflight |-> <<>>,
             error |-> FALSE]

vars == <<hasStorage, hasSession, hasBrowserStorage, storage, nextKey, chain, approved,
          failed, pc, li, localData, prompted, lastAnswer, loginError,
          inflight, origin, lastTx, response, lastOp, call, result, writer, flows>>

fnVars == <<call, result, writer, flows>>
loginVars == <<li, localData, prompted, lastAnswer, loginError>>

Init ==
    /\ hasStorage \in BOOLEAN
    /\ hasSession \in BOOLEAN
    /\ hasBrowserStorage \in BOOLEAN
    /\ storage = [k \in StorageKeys |->
                      IF k = ForeignKey THEN ForeignValue ELSE NoValue]
    /\ nextKey = 1
    /\ chain = [auth |-> [c \in Contracts |-> <<>>], links |-> {}]
    /\ approved = {}
    /\ failed = {}
    /\ pc = "idle"
    /\ li = 0
    /\ localData = <<>>
    /\ prompted = <<>>
    /\ lastAnswer = "none"
    /\ loginError = FALSE
    /\ inflight = <<>>
    /\ origin = "none"
    /\ lastTx = <<>>
    /\ response = <<>>
    /\ lastOp = "init"
    /\ call = [fn |-> "none"]
    /\ result = <<>>
    /\ writer = [c \in Contracts |-> "none"]
    /\ flows = [f \in Flows |-> FlowIdle]

envVars == <<hasStorage, hasSession, hasBrowserStorage>>

\* the locals of a finished afterLogin invocation and the record of a
\* finished hook call are dropped when the next operation starts
ForgetLogin ==
    /\ li' = 0
    /\ localData' = <<>>
    /\ prompted' = <<>>
    /\ lastAnswer' = "none"
    /\ loginError' = FALSE

\* ------------------------------------------------- transact (user call)
\* session.transact reaches the plugin's beforeSign hook with the request
TransactBeforeSign ==
    /\ pc = "idle"
    /\ \E tx \in Transactions :
        LET r == beforeSign(Actor, storage, hasStorage, tx)
        IN  /\ lastTx' = tx
            /\ response' = r.response
            /\ storage' = r.storage
            /\ inflight' = IF r.response # <<>> THEN r.response[1].request ELSE tx
    /\ origin' = "user"
    /\ pc' = "wallet"
    /\ lastOp' = "beforeSign"
    /\ ForgetLogin
    /\ UNCHANGED <<fnVars, envVars, nextKey, chain, approved, failed>>

\* the request is signed and broadcast, or the wallet or the chain refuses it;
\* which of the two happens is decided outside the plugin
TransactOutcome ==
    /\ pc = "wallet"
    /\ \E ok \in BOOLEAN :
        IF ok
        THEN /\ chain' = ApplyActions(chain, inflight, 1)
             /\ lastOp' = "transactAccepted"
        ELSE /\ chain' = chain
             /\ lastOp' = "transactRejected"
    /\ inflight' = <<>>
    /\ origin' = "none"
    /\ lastTx' = <<>>
    /\ response' = <<>>
    /\ pc' = "idle"
    /\ UNCHANGED <<fnVars, envVars, storage, nextKey, approved, failed, loginVars>>

\* ------------------------------------------------------------ teardown
RECURSIVE DeleteConfigsFrom(_, _)
DeleteConfigsFrom(st, i) ==
    IF i > Len(actionConfigs) THEN st
    ELSE DeleteConfigsFrom(deleteLocalSigningData(st, actionConfigs[i].contract), i + 1)

teardownKeepsRecords(st, storageAvailable) == st
teardownFirstOnly(st, storageAvailable) ==
    IF ~storageAvailable THEN st
    ELSE deleteLocalSigningData(st, actionConfigs[1].contract)
teardown(st, storageAvailable) ==
    IF ~storageAvailable THEN st ELSE DeleteConfigsFrom(st, 1)

\* onLogout(session) -> parent.teardown(session)
Teardown ==
    /\ pc = "idle"
    /\ storage' = teardown(storage, hasStorage)
    /\ approved' = {}
    /\ lastOp' = "teardown"
    /\ ForgetLogin
    /\ UNCHANGED <<fnVars, envVars, nextKey, chain, failed, pc, inflight, origin,
                   lastTx, response>>

\* ---------------------------------------------------------- afterLogin
\* ctxWithSession.session?.storage || this.getBrowserStorage().  The session
\* storage and the browser fallback are one physical store with the same
\* keys: a record afterLogin writes without a session is the record the
\* first later beforeSign reads (index.ts 547).
LoginStorageAssumed == TRUE
LoginStorageAvailable == (hasSession /\ hasStorage) \/ hasBrowserStorage

CurrentContract == actionConfigs[li].contract

AfterLoginStart ==
    /\ pc = "idle"
    /\ IF LoginStorageAvailable
       THEN /\ pc' = "check"
            /\ li' = 1
       ELSE /\ pc' = "idle"
            /\ li' = 0
    /\ localData' = <<>>
    /\ prompted' = <<>>
    /\ lastAnswer' = "none"
    /\ loginError' = FALSE
    /\ lastOp' = "afterLogin"
    /\ UNCHANGED <<fnVars, envVars, storage, nextKey, chain, approved, failed,
                   inflight, origin, lastTx, response>>

LoginCheckIgnoresKey ==
    /\ pc = "check"
    /\ IF li > Len(actionConfigs)
       THEN /\ pc' = "idle"
            /\ li' = li
            /\ lastOp' = "afterLoginReturn"
       ELSE /\ pc' = "prompt"
            /\ li' = li
            /\ lastOp' = "loginCheck"
    /\ UNCHANGED <<fnVars, envVars, storage, nextKey, chain, approved, failed,
                   localData, prompted, lastAnswer, loginError,
                   inflight, origin, lastTx, response>>

\* head of the loop over the configs and the existing-key check
LoginCheck ==
    /\ pc = "check"
    /\ IF li > Len(actionConfigs)
       THEN /\ pc' = "idle"
            /\ li' = li
            /\ lastOp' = "afterLoginReturn"
       ELSE IF HasPrivateKey(loadLocalSigningData(storage, CurrentContract))
       THEN /\ pc' = "check"
            /\ li' = li + 1
            /\ lastOp' = "loginSkip"
       ELSE /\ pc' = "prompt"
            /\ li' = li
            /\ lastOp' = "loginCheck"
    /\ UNCHANGED <<fnVars, envVars, storage, nextKey, chain, approved, failed,
                   localData, prompted, lastAnswer, loginError,
                   inflight, origin, lastTx, response>>

\* ctx.ui.prompt and the check of its answer
LoginPromptAsksAgain ==
    /\ pc = "prompt"
    /\ \E answer \in PromptAnswers :
        /\ lastAnswer' = answer
        /\ IF UserApproved(answer)
           THEN /\ nextKey <= MaxKeys
                /\ pc' = "save"
                /\ li' = li
                /\ prompted' = Append(prompted, CurrentContract)
           ELSE /\ pc' = "prompt"
                /\ li' = li
                /\ prompted' = prompted
        /\ approved' = IF answer = "approved"
                       THEN approved \cup {CurrentContract} ELSE approved
    /\ lastOp' = "loginPrompt"
    /\ UNCHANGED <<fnVars, envVars, storage, nextKey, chain, failed, localData,
                   loginError, inflight, origin, lastTx, response>>

LoginPrompt ==
    /\ pc = "prompt"
    /\ \E answer \in PromptAnswers :
        /\ lastAnswer' = answer
        /\ IF UserApproved(answer)
           THEN /\ nextKey <= MaxKeys
                /\ pc' = "save"
                /\ li' = li
           ELSE /\ pc' = "check"
                /\ li' = li + 1
        /\ approved' = IF answer = "approved"
                       THEN approved \cup {CurrentContract} ELSE approved
    /\ prompted' = Append(prompted, CurrentContract)
    /\ lastOp' = "loginPrompt"
    /\ UNCHANGED <<fnVars, envVars, storage, nextKey, chain, failed, localData,
                   loginError, inflight, origin, lastTx, response>>

\* generateLocalKey and the first save, with permissionSetup false
LoginSave ==
    /\ pc = "save"
    /\ LET pair == generateLocalKey(nextKey)
           fresh == [privateKey |-> pair.privateKey,
                     publicKey |-> pair.publicKey,
                     permissionSetup |-> FALSE]
       IN  /\ localData' = <<fresh>>
           /\ storage' = saveLocalSigningData(storage, CurrentContract, fresh)
    /\ nextKey' = nextKey + 1
    /\ IF hasSession
       THEN /\ pc' = "transact"
            /\ li' = li
       ELSE /\ pc' = "check"
            /\ li' = li + 1
    /\ lastOp' = "loginSave"
    /\ UNCHANGED <<fnVars, envVars, chain, approved, failed, prompted, lastAnswer,
                   loginError, inflight, origin, lastTx, response>>

\* session.transact of the setup actions; the session runs its transact
\* plugins' beforeSign hooks, this plugin's included (it is registered in
\* transactPlugins next to loginPlugins), on that request
LoginTransact ==
    /\ pc = "transact"
    /\ LET config == actionConfigs[li]
           updateAuthAction ==
               createUpdateAuthAction(Actor, config.contract,
                                      localData[1].publicKey, "active")
           linkAuthActions ==
               createLinkAuthActions(Actor, config.contract, config.actions)
           setup == <<updateAuthAction>> \o linkAuthActions
           r == beforeSign(Actor, storage, hasStorage, setup)
       IN  /\ lastTx' = setup
           /\ response' = r.response
           /\ storage' = r.storage
           /\ inflight' = IF r.response # <<>> THEN r.response[1].request ELSE setup
    /\ origin' = "login"
    /\ pc' = "broadcast"
    /\ lastOp' = "loginTransact"
    /\ UNCHANGED <<fnVars, envVars, nextKey, chain, approved, failed, loginVars>>

\* session.transact resolves (accepted) or throws
LoginTxOutcome ==
    /\ pc = "broadcast"
    /\ \E ok \in BOOLEAN :
        IF ok
        THEN /\ chain' = ApplyActions(chain, inflight, 1)
             /\ failed' = failed
             /\ pc' = "mark"
             /\ lastOp' = "loginTxAccepted"
        ELSE /\ chain' = chain
             /\ failed' = failed \cup {CurrentContract}
             /\ pc' = "cleanup"
             /\ lastOp' = "loginTxFailed"
    /\ inflight' = <<>>
    /\ origin' = "none"
    /\ lastTx' = <<>>
    /\ response' = <<>>
    /\ UNCHANGED <<fnVars, envVars, storage, nextKey, approved, loginVars>>

\* localData.permissionSetup = true and the second save
LoginMark ==
    /\ pc = "mark"
    /\ LET marked == [localData[1] EXCEPT !.permissionSetup = TRUE]
       IN  /\ localData' = <<marked>>
           /\ storage' = saveLocalSigningData(storage, CurrentContract, marked)
    /\ failed' = failed \ {CurrentContract}
    /\ pc' = "check"
    /\ li' = li + 1
    /\ lastOp' = "loginMark"
    /\ UNCHANGED <<fnVars, envVars, nextKey, chain, approved, prompted,
                   lastAnswer, loginError, inflight, origin, lastTx, response>>

LoginCleanupDeletesAll ==
    /\ pc = "cleanup"
    /\ storage' = DeleteConfigsFrom(storage, 1)
    /\ loginError' = TRUE
    /\ pc' = "idle"
    /\ lastOp' = "loginThrow"
    /\ UNCHANGED <<fnVars, envVars, nextKey, chain, approved, failed, li, localData,
                   prompted, lastAnswer, inflight, origin, lastTx, response>>

LoginCleanupKeepsRecord ==
    /\ pc = "cleanup"
    /\ storage' = storage
    /\ loginError' = TRUE
    /\ pc' = "idle"
    /\ lastOp' = "loginThrow"
    /\ UNCHANGED <<fnVars, envVars, nextKey, chain, approved, failed, li, localData,
                   prompted, lastAnswer, inflight, origin, lastTx, response>>

LoginCleanupSwallows ==
    /\ pc = "cleanup"
    /\ storage' = deleteLocalSigningData(storage, CurrentContract)
    /\ loginError' = FALSE
    /\ pc' = "check"
    /\ li' = li + 1
    /\ lastOp' = "loginThrow"
    /\ UNCHANGED <<fnVars, envVars, nextKey, chain, approved, failed, localData,
                   prompted, lastAnswer, inflight, origin, lastTx, response>>

\* the catch block: delete the stored data and rethrow
LoginCleanup ==
    /\ pc = "cleanup"
    /\ storage' = deleteLocalSigningData(storage, CurrentContract)
    /\ loginError' = TRUE
    /\ pc' = "idle"
    /\ lastOp' = "loginThrow"
    /\ UNCHANGED <<fnVars, envVars, nextKey, chain, approved, failed, li, localData,
                   prompted, lastAnswer, inflight, origin, lastTx, response>>

Next ==
    \/ TransactBeforeSign
    \/ TransactOutcome
    \/ Teardown
    \/ AfterLoginStart
    \/ LoginCheck
    \/ LoginPrompt
    \/ LoginSave
    \/ LoginTransact
    \/ LoginTxOutcome
    \/ LoginMark
    \/ LoginCleanup

Spec == Init /\ [][Next]_vars

TypeOK ==
    /\ pc \in {"idle", "wallet", "check", "prompt", "save", "transact",
               "broadcast", "mark", "cleanup"}
    /\ li \in 0..(Len(actionConfigs) + 1)
    /\ nextKey \in 1..(MaxKeys + 1)
    /\ approved \subseteq Contracts
    /\ failed \subseteq Contracts
    /\ DOMAIN storage = StorageKeys

\* ------------------------------------------- direct calls of the methods
\* The plugin's action builders are public methods a caller can use with any
\* arguments; a direct call changes nothing but what it returns.
programVars == <<envVars, storage, nextKey, chain, approved, failed, pc,
                 loginVars, inflight, origin, lastTx, response, lastOp>>

CallAccounts == {Actor, "otheraccount"}
CallContracts == Contracts \cup {"eosio.token"}
CallActionNames == {"play", "claim", "equip"}
CallPublicKeys == {generateLocalKey(n).publicKey : n \in 1..MaxKeys}
CallParents == {<<>>, <<"owner">>}

CallCreateLinkAuthActions ==
    /\ \E account \in CallAccounts, contract \in CallContracts,
          actions \in SeqsUpTo(CallActionNames, MaxListed) :
        /\ call' = [fn |-> "createLinkAuthActions", account |-> account,
                    contract |-> contract, actions |-> actions]
        /\ result' = createLinkAuthActions(account, contract, actions)
    /\ UNCHANGED <<programVars, writer, flows>>

CallCreateUpdateAuthAction ==
    /\ \E account \in CallAccounts, contract \in CallContracts,
          publicKey \in CallPublicKeys, parent \in CallParents :
        /\ call' = [fn |-> "createUpdateAuthAction", account |-> account,
                    contract |-> contract, publicKey |-> publicKey,
                    parentPermission |-> parent]
        /\ result' = createUpdateAuthAction(account, contract, publicKey,
                                            ParentOrDefault(parent))
    /\ UNCHANGED <<programVars, writer, flows>>

CallGetStorageKey ==
    /\ \E contract \in CallContracts :
        /\ call' = [fn |-> "getStorageKey", contract |-> contract]
        /\ result' = getStorageKey(contract)
    /\ UNCHANGED <<programVars, writer, flows>>

\* plugins constructed with other configurations: entries in any order, a
\* contract in more than one entry
EntryActionLists == {<<"play">>, <<"claim", "play">>}
ConfigEntries ==
    {[contract |-> c, actions |-> a] : c \in Contracts, a \in EntryActionLists}
ConfigLists == SeqsUpTo(ConfigEntries, MaxEntries)
MatchedActions ==
    {UserAction(account, name) : account \in CallContracts, name \in {"play", "claim"}}

CallIsLocalSigningAction ==
    /\ \E configs \in ConfigLists, action \in MatchedActions :
        /\ call' = [fn |-> "isLocalSigningAction", configs |-> configs,
                    action |-> action]
        /\ result' = isLocalSigningActionOf(configs, action)
    /\ UNCHANGED <<programVars, writer, flows>>

InitCalls == Init /\ hasStorage /\ hasSession /\ hasBrowserStorage
NextCalls ==
    \/ CallCreateLinkAuthActions
    \/ CallCreateUpdateAuthAction
    \/ CallGetStorageKey
    \/ CallIsLocalSigningAction
SpecCalls == InitCalls /\ [][NextCalls]_vars

\* ------------------------------------------------- storage that can fail
\* storage.read, storage.write and storage.remove are asynchronous calls of
\* a collaborator and can reject; a rejected call has no effect on the
\* stored data.  None of the three is wrapped by a handler of its own, so the
\* rejection leaves through the hook that made the call.

\* a read of the hook's loops, or the write of its injection branch, rejects:
\* the hook throws before it stored anything and session.transact throws
TransactHookThrows ==
    /\ pc = "idle"
    /\ hasStorage
    /\ lastOp' = "beforeSignThrow"
    /\ ForgetLogin
    /\ UNCHANGED <<fnVars, envVars, storage, nextKey, chain, approved, failed, pc,
                   inflight, origin, lastTx, response>>

\* the remove of config i rejects: the configs before it are deleted
RECURSIVE DeleteConfigsBefore(_, _)
DeleteConfigsBefore(st, i) ==
    IF i <= 1 THEN st
    ELSE deleteLocalSigningData(DeleteConfigsBefore(st, i - 1),
                                actionConfigs[i - 1].contract)

TeardownThrows ==
    /\ pc = "idle"
    /\ hasStorage
    /\ \E i \in ConfigIdx : storage' = DeleteConfigsBefore(storage, i)
    /\ lastOp' = "teardownThrow"
    /\ ForgetLogin
    /\ UNCHANGED <<fnVars, envVars, nextKey, chain, approved, failed, pc,
                   inflight, origin, lastTx, response>>

\* the read of the existing-key check rejects, outside any try
LoginCheckThrows ==
    /\ pc = "check"
    /\ li \in ConfigIdx
    /\ loginError' = TRUE
    /\ pc' = "idle"
    /\ lastOp' = "loginStorageThrow"
    /\ UNCHANGED <<fnVars, envVars, storage, nextKey, chain, approved, failed, li,
                   localData, prompted, lastAnswer, inflight, origin, lastTx,
                   response>>

\* the first save rejects, after the key was generated and outside any try
LoginSaveThrows ==
    /\ pc = "save"
    /\ nextKey' = nextKey + 1
    /\ loginError' = TRUE
    /\ pc' = "idle"
    /\ lastOp' = "loginStorageThrow"
    /\ UNCHANGED <<fnVars, envVars, storage, chain, approved, failed, li,
                   localData, prompted, lastAnswer, inflight, origin, lastTx,
                   response>>

\* the plugin's hook throws inside afterLogin's session.transact: the
\* request is not sent and control goes to the catch block
LoginTransactThrows ==
    /\ pc = "transact"
    /\ hasStorage
    /\ failed' = failed \cup {CurrentContract}
    /\ pc' = "cleanup"
    /\ lastOp' = "loginHookThrow"
    /\ UNCHANGED <<fnVars, envVars, storage, nextKey, chain, approved, loginVars,
                   inflight, origin, lastTx, response>>

\* the second save rejects, inside the try: control goes to the catch block
LoginMarkThrows ==
    /\ pc = "mark"
    /\ localData' = <<[localData[1] EXCEPT !.permissionSetup = TRUE]>>
    /\ pc' = "cleanup"
    /\ lastOp' = "loginMarkThrow"
    /\ UNCHANGED <<fnVars, envVars, storage, nextKey, chain, approved, failed, li,
                   prompted, lastAnswer, loginError, inflight, origin, lastTx,
                   response>>

\* the remove of the catch block rejects: its error replaces the caught one
\* and the record stays
LoginCleanupThrows ==
    /\ pc = "cleanup"
    /\ loginError' = TRUE
    /\ pc' = "idle"
    /\ lastOp' = "loginStorageThrow"
    /\ UNCHANGED <<fnVars, envVars, storage, nextKey, chain, approved, failed, li,
                   localData, prompted, lastAnswer, inflight, origin, lastTx,
                   response>>

\* the stored text of a record is changed from outside the plugin so that it
\* still parses but holds no private key (privateKey: "")
StorageCorrupted ==
    /\ pc = "idle"
    /\ \E c \in Contracts :
        LET data == loadLocalSigningData(storage, c)
        IN  /\ HasPrivateKey(data)
            /\ storage' = saveLocalSigningData(storage, c,
                              [data[1] EXCEPT !.privateKey = <<>>])
    /\ lastOp' = "corrupted"
    /\ ForgetLogin
    /\ UNCHANGED <<fnVars, envVars, nextKey, chain, approved, failed, pc,
                   inflight, origin, lastTx, response>>

\* the faults are studied for a session that has a storage of its own
InitStored == Init /\ hasStorage /\ ~hasBrowserStorage

NextStorageFails ==
    \/ Next
    \/ TransactHookThrows
    \/ TeardownThrows
    \/ LoginCheckThrows
    \/ LoginSaveThrows
    \/ LoginTransactThrows
    \/ LoginMarkThrows
    \/ LoginCleanupThrows
SpecStorageFails == InitStored /\ [][NextStorageFails]_vars

NextCorrupted ==
    \/ Next
    \/ StorageCorrupted
SpecCorrupted == InitStored /\ [][NextCorrupted]_vars

\* ------------------------------------- several sessions on one storage
\* Sessions of different accounts that a SessionKit (or a browser) gives the
\* same storage, each with this plugin and the same configuration.  Each
\* operation is one hook call of one session, run to its end: afterLogin
\* without ctx.session (index.ts 547), the beforeSign hook and teardown.
Sessions == {Actor, "otheraccount"}
LoginAnswers == [Contracts -> {"approved", "declined"}]

\* the loop of afterLogin when the context carries no session: the
\* existing-key check, the prompt, generateLocalKey and the first save
RECURSIVE afterLoginNoSession(_, _, _, _)
afterLoginNoSession(st, n, i, answers) ==
    IF i > Len(actionConfigs) THEN [storage |-> st, nextKey |-> n, saved |-> {}]
    ELSE LET contract == actionConfigs[i].contract
         IN  IF HasPrivateKey(loadLocalSigningData(st, contract))
             THEN afterLoginNoSession(st, n, i + 1, answers)
             ELSE IF ~UserApproved(answers[contract])
             THEN afterLoginNoSession(st, n, i + 1, answers)
             ELSE LET pair == generateLocalKey(n)
                      fresh == [privateKey |-> pair.privateKey,
                                publicKey |-> pair.publicKey,
                                permissionSetup |-> FALSE]
                      rest == afterLoginNoSession(
                                  saveLocalSigningData(st, contract, fresh),
                                  n + 1, i + 1, answers)
                  IN  [rest EXCEPT !.saved = @ \cup {contract}]

sessionVars == <<envVars, chain, approved, failed, pc, loginVars, inflight,
                 origin, lastTx, response, lastOp, flows>>

SharedAfterLogin ==
    /\ \E s \in Sessions, answers \in LoginAnswers :
        LET r == afterLoginNoSession(storage, nextKey, 1, answers)
        IN  /\ r.nextKey <= MaxKeys + 1
            /\ storage' = r.storage
            /\ nextKey' = r.nextKey
            /\ writer' = [c \in Contracts |->
                              IF c \in r.saved THEN s ELSE writer[c]]
            /\ call' = [fn |-> "afterLogin", session |-> s]
            /\ result' = <<>>
    /\ UNCHANGED sessionVars

SharedBeforeSign ==
    /\ \E s \in Sessions, tx \in Transactions :
        LET r == beforeSign(s, storage, TRUE, tx)
        IN  /\ storage' = r.storage
            /\ call' = [fn |-> "beforeSign", session |-> s, actions |-> tx]
            /\ result' = r.response
    /\ UNCHANGED <<sessionVars, nextKey, writer>>

SharedTeardown ==
    /\ \E s \in Sessions :
        /\ storage' = teardown(storage, TRUE)
        /\ call' = [fn |-> "teardown", session |-> s]
    /\ writer' = [c \in Contracts |-> "none"]
    /\ result' = <<>>
    /\ UNCHANGED <<sessionVars, nextKey>>

InitShared == Init /\ hasStorage /\ hasBrowserStorage /\ ~hasSession
NextShared ==
    \/ SharedAfterLogin
    \/ SharedBeforeSign
    \/ SharedTeardown
SpecShared == InitShared /\ [][NextShared]_vars

\* --------------------------------------- direct calls of the storage methods
\* saveLocalSigningData, loadLocalSigningData and deleteLocalSigningData are
\* public methods too; a caller hands them the session's storage
SavedRecords ==
    {[privateKey |-> generateLocalKey(n).privateKey,
      publicKey |-> generateLocalKey(n).publicKey,
      permissionSetup |-> f] : n \in 1..MaxKeys, f \in BOOLEAN}

storeRest == <<sessionVars, nextKey, writer>>

StoreSave ==
    /\ \E contract \in Contracts, data \in SavedRecords :
        /\ storage' = saveLocalSigningData(storage, contract, data)
        /\ call' = [fn |-> "saveLocalSigningData", contract |-> contract,
                    data |-> data]
    /\ result' = <<>>
    /\ UNCHANGED storeRest

StoreLoad ==
    /\ \E contract \in Contracts :
        /\ call' = [fn |-> "loadLocalSigningData", contract |-> contract]
        /\ result' = loadLocalSigningData(storage, contract)
    /\ UNCHANGED <<storeRest, storage>>

StoreDelete ==
    /\ \E contract \in Contracts :
        /\ storage' = deleteLocalSigningData(storage, contract)
        /\ call' = [fn |-> "deleteLocalSigningData", contract |-> contract]
    /\ result' = <<>>
    /\ UNCHANGED storeRest

NextStore ==
    \/ StoreSave
    \/ StoreLoad
    \/ StoreDelete
SpecStore == InitCalls /\ [][NextStore]_vars

\* ============================================================== claims
\* vocabulary of the statements, taken from the configuration itself
AllowList ==
    UNION {{<<actionConfigs[i].contract, a>> : a \in Range(actionConfigs[i].actions)} :
              i \in ConfigIdx}

Qualifies(action) == <<action.account, action.name>> \in AllowList
ConfiguredKeys == {<<"localsession", "-", c>> : c \in Contracts}
RecordExists(c) == storage[<<"localsession", "-", c>>] # <<>>
RecordFlag(c) == storage[<<"localsession", "-", c>>][3]
RecordPublicKey(c) == storage[<<"localsession", "-", c>>][2]

\* the hook has just run on lastTx and response is what it returned
HookRan == lastOp \in {"beforeSign", "loginTransact"}
Signed == response # <<>> /\ response[1].signatures # <<>>
Replaced == response # <<>> /\ response[1].request # lastTx
Targets(tx) == {tx[k].account : k \in 1..Len(tx)}
LinkActionsOf(actions) ==
    {actions[k] : k \in {j \in 1..Len(actions) :
                            actions[j].account = "eosio" /\ actions[j].name = "linkauth"}}
UpdatedPermissions(actions) ==
    {actions[k].data.permission :
        k \in {j \in 1..Len(actions) :
                  actions[j].account = "eosio" /\ actions[j].name = "updateauth"}}

\* C1: for every transaction handed to beforeSign the hook returns a local
\* signature if and only if every action is in the allow-list and a key
\* record exists for at least one contract the transaction targets; in
\* every other case it returns nothing (no replaced request, no signature).
C1_SignIffQualifiesAndKeyExists ==
    HookRan =>
        /\ Signed <=>
              /\ \A k \in 1..Len(lastTx) : Qualifies(lastTx[k])
              /\ \E c \in Targets(lastTx) \cap Contracts : RecordExists(c)
        /\ ~Signed => response = <<>>

\* C2: a transaction with at least one qualifying and at least one
\* non-qualifying action is never locally signed by beforeSign.
Mixed(tx) ==
    /\ \E k \in 1..Len(tx) : Qualifies(tx[k])
    /\ \E k \in 1..Len(tx) : ~Qualifies(tx[k])

C2_MixedNeverSigned == (HookRan /\ Mixed(lastTx)) => ~Signed

\* the hook has answered a mixed transaction whose qualifying action belongs
\* to a contract that is set up in storage and installed on chain
C2_Witness ==
    /\ lastOp = "beforeSign"
    /\ hasStorage
    /\ Mixed(lastTx)
    /\ \E k \in 1..Len(lastTx) :
          /\ Qualifies(lastTx[k])
          /\ RecordExists(lastTx[k].account)
          /\ RecordFlag(lastTx[k].account) = TRUE
          /\ chain.auth[lastTx[k].account] = <<RecordPublicKey(lastTx[k].account)>>
    /\ response = <<>>

\* C3: a key record for contract C is in storage only if a setup
\* transaction for C (installing that record's key) has already been
\* accepted; the key is never written before acceptance.
C3_KeyOnlyAfterAcceptance ==
    \A c \in Contracts :
        RecordExists(c) => chain.auth[c] = <<RecordPublicKey(c)>>

\* C4: every authority-link action the plugin emits (afterLogin setup
\* transaction or beforeSign injection) binds a pair of the allow-list and
\* requires the permission named after that pair's contract; the links an
\* accepted setup transaction leaves on chain stay inside the allow-list.
LinkInAllowList(code, type, requirement) ==
    <<code, type>> \in AllowList /\ requirement = code

C4_LinksWithinAllowList ==
    /\ \A a \in LinkActionsOf(inflight) :
          LinkInAllowList(a.data.code, a.data.type, a.data.requirement)
    /\ response # <<>> =>
          \A a \in LinkActionsOf(response[1].request) :
              LinkInAllowList(a.data.code, a.data.type, a.data.requirement)
    /\ \A l \in chain.links : LinkInAllowList(l.code, l.type, l.requirement)

\* beforeSign has just injected the setup of one contract while the links
\* of an earlier accepted setup are already on chain
C4_Witness ==
    /\ lastOp = "beforeSign"
    /\ response # <<>>
    /\ LinkActionsOf(response[1].request) # {}
    /\ LinkActionsOf(inflight) # {}
    /\ chain.links # {}

\* C5: if the setup transaction submitted by afterLogin for C fails, no key
\* record exists for C when afterLogin has finished, and a later afterLogin
\* prompts for C again and, once its setup transaction is accepted, leaves C
\* set up with the key that transaction installed.
C5_NoRecordAfterFailure ==
    \A c \in failed : pc = "idle" => ~RecordExists(c)

C5_RetryStep ==
    /\ (pc = "check" /\ li \in ConfigIdx /\ actionConfigs[li].contract \in failed)
           => (pc' = "prompt" /\ li' = li)
    /\ (pc = "mark" /\ actionConfigs[li].contract \in failed)
           => LET c == actionConfigs[li].contract
                  stored == storage'[<<"localsession", "-", c>>]
              IN  /\ stored # <<>>
                  /\ stored[3] = TRUE
                  /\ chain'.auth[c] = <<stored[2]>>
                  /\ c \notin failed'

C5_FailureAtomicRetry == [](C5_NoRecordAfterFailure) /\ [][C5_RetryStep]_vars

\* the setup of a contract failed in an earlier afterLogin; a later
\* afterLogin prompted for it again and its setup transaction was accepted
C5_Witness ==
    /\ pc = "mark"
    /\ actionConfigs[li].contract \in failed
    /\ actionConfigs[li].contract \in Range(prompted)
    /\ chain.auth[actionConfigs[li].contract] = <<localData[1].publicKey>>

\* C6: isSetup(C) is false before any approval of C, true immediately after
\* a confirmed setup transaction for C, and false for every configured
\* contract after teardown.
C6_ConfirmedStep ==
    \A c \in Contracts :
        (/\ lastOp' \in {"transactAccepted", "loginTxAccepted"}
         /\ lastOp \in {"beforeSign", "loginTransact"}
         /\ c \in UpdatedPermissions(inflight))
            => isSetupOf(storage', hasStorage', c)

C6_IsSetupLifecycle ==
    /\ [](\A c \in Contracts :
             (c \notin approved \/ lastOp = "teardown")
                 => ~isSetupOf(storage, hasStorage, c))
    /\ [][C6_ConfirmedStep]_vars

\* C7: a declined prompt, a prompt without response and a prompt closed
\* with an exception are handled identically and change nothing: no key is
\* generated, no record written, no setup transaction submitted, and
\* afterLogin moves on to the next contract.
C7_NoApprovalStep ==
    (pc = "prompt" /\ lastOp' = "loginPrompt"
        /\ lastAnswer' \in {"declined", "noresponse", "closed"})
    => /\ storage' = storage
       /\ nextKey' = nextKey
       /\ chain' = chain
       /\ inflight' = inflight
       /\ localData' = localData
       /\ approved' = approved
       /\ pc' = "check"
       /\ li' = li + 1

C7_DeclineChangesNothing == [][C7_NoApprovalStep]_vars

\* the prompt of a contract was closed with an exception and afterLogin went
\* on with no record for it
C7_Witness ==
    /\ lastOp = "loginPrompt"
    /\ lastAnswer = "closed"
    /\ pc = "check"
    /\ li = 2
    /\ prompted = <<"gamecontract">>
    /\ ~RecordExists("gamecontract")
    /\ nextKey = 1

\* C8: starting from empty storage, beforeSign signs with the key of a
\* contract only if the user approved the prompt for that contract after the
\* most recent teardown, and no record is created for a contract without
\* such an approval.
C8_SignedWithApprovedKey ==
    (HookRan /\ Signed) =>
        \E c \in approved :
            /\ RecordExists(c)
            /\ response[1].signatures[1].key = RecordPublicKey(c)

C8_RecordsOfSessionApproved ==
    hasStorage => \A c \in Contracts : RecordExists(c) => c \in approved

C8_CreationStep ==
    \A c \in Contracts :
        (~RecordExists(c) /\ storage'[<<"localsession", "-", c>>] # <<>>)
            => c \in approved

C8_ConsentBeforeSigning ==
    /\ [](C8_SignedWithApprovedKey /\ C8_RecordsOfSessionApproved)
    /\ [][C8_CreationStep]_vars

\* beforeSign has signed with the third generated key; without a session in
\* afterLogin only teardown removes records, so a teardown and a renewed
\* approval came before this signature
C8_Witness ==
    /\ ~hasSession
    /\ lastOp = "beforeSign"
    /\ Signed
    /\ response[1].signatures[1].key = <<"PUB_K1_", 3>>

\* C9: after teardown of a session that has a storage, no record exists in
\* storage for any configured contract.
C9_TeardownDeletesAll ==
    (lastOp = "teardown" /\ hasStorage) => \A c \in Contracts : ~RecordExists(c)

\* teardown has run after two keys were stored, one for a contract whose
\* setup was accepted on chain and one for a contract that never was
C9_Witness ==
    /\ lastOp = "teardown"
    /\ hasStorage
    /\ ~hasSession
    /\ nextKey = 3
    /\ chain.auth["gamecontract"] # <<>>
    /\ chain.auth["nftcontract"] = <<>>
    /\ \A c \in Contracts : ~RecordExists(c)

\* C10: teardown builds no authority-update or authority-link action and
\* submits no transaction; it only deletes records of configured contracts
\* and leaves the on-chain permissions and every other storage entry alone.
C10_TeardownStep ==
    lastOp' = "teardown" =>
        /\ chain' = chain
        /\ inflight' = <<>> /\ inflight = <<>>
        /\ response' = response
        /\ nextKey' = nextKey
        /\ pc' = "idle"
        /\ \A k \in DOMAIN storage \ ConfiguredKeys : storage'[k] = storage[k]
        /\ \A k \in ConfiguredKeys : storage'[k] = <<>> \/ storage'[k] = storage[k]

C10_TeardownOnlyDeletes == [][C10_TeardownStep]_vars

\* teardown has removed the records while the permission and links installed
\* on chain and the foreign storage entry are still there
C10_Witness ==
    /\ lastOp = "teardown"
    /\ hasStorage
    /\ storage[<<"wharf", "-", "session">>] = <<"blob">>
    /\ chain.auth["gamecontract"] # <<>>
    /\ chain.links # {}
    /\ \A c \in Contracts : ~RecordExists(c)

\* C11: without a storage every entry point is a silent no-op: the hook
\* returns nothing for every request and leaves the request as it was,
\* afterLogin returns at once without a prompt and without a new key,
\* teardown deletes nothing, isSetup is false, and none of them throws.
\* The hook, teardown and isSetup look at the session's storage only;
\* afterLogin has no storage when neither the session's nor the browser's
\* exists.
NoSessionStorage == ~hasStorage
NoStorageAtAll == ~hasStorage /\ ~hasBrowserStorage
C11_HookSilent ==
    (HookRan /\ NoSessionStorage) => (response = <<>> /\ inflight = lastTx)
C11_IsSetupFalse ==
    NoSessionStorage => \A c \in Contracts : ~isSetupOf(storage, hasStorage, c)
C11_NoOpStep ==
    /\ (NoSessionStorage /\ lastOp' \in {"beforeSign", "loginTransact", "teardown"})
           => storage' = storage
    /\ (NoStorageAtAll /\ lastOp' = "afterLogin")
           => /\ pc' = "idle"
              /\ prompted' = <<>>
              /\ nextKey' = nextKey
              /\ storage' = storage
              /\ ~loginError'
C11_NoStorageNoOp ==
    /\ [](C11_HookSilent /\ C11_IsSetupFalse)
    /\ [][C11_NoOpStep]_vars
\* afterLogin has just returned in an environment without any storage
C11_Witness ==
    /\ NoStorageAtAll
    /\ hasSession
    /\ lastOp = "afterLogin"
    /\ pc = "idle"
    /\ nextKey = 1

\* C12: in one afterLogin invocation each configured contract without a key
\* is prompted exactly once, and a contract with a stored key is never
\* prompted and gets no new key.  (An invocation that finds no storage is
\* C11's case; the statement is about invocations that pass that guard.)
KeyStored(c) == RecordExists(c) /\ storage[<<"localsession", "-", c>>][1] # <<>>
PromptCount(c) == Cardinality({k \in 1..Len(prompted) : prompted[k] = c})
LoginEnded == pc = "idle" /\ lastOp \in {"afterLoginReturn", "loginThrow"}
\* a contract the invocation did not prompt holds a key, and keys are only
\* made after a prompt: the unprompted contracts are those that had a key
C12_EachPromptedOnce ==
    LoginEnded =>
        \A c \in Contracts :
            /\ PromptCount(c) <= 1
            /\ PromptCount(c) = 0 => KeyStored(c)
C12_NoPromptWithKey ==
    pc = "prompt" => ~KeyStored(CurrentContract)
C12_SkipStep ==
    (pc = "check" /\ li \in ConfigIdx /\ KeyStored(CurrentContract))
        => /\ pc' = "check"
           /\ li' = li + 1
           /\ prompted' = prompted
           /\ nextKey' = nextKey
           /\ storage' = storage
C12_PromptStep ==
    prompted' # prompted =>
        \/ prompted' = <<>>
        \/ pc = "prompt" /\ prompted' = Append(prompted, CurrentContract)
C12_VisitedPromptedOnce ==
    \A i \in ConfigIdx :
        LET c == actionConfigs[i].contract
        IN  /\ PromptCount(c) <= 1
            /\ (i < li /\ PromptCount(c) = 0) => KeyStored(c)
            /\ i > li => PromptCount(c) = 0
            /\ (lastOp = "afterLoginReturn" /\ PromptCount(c) = 0) => KeyStored(c)
C13_IsSetupIffRecord ==
    hasStorage =>
        \A c \in Contracts : isSetupOf(storage, hasStorage, c) <=> RecordExists(c)

C15_OneLinkPerListedAction ==
    call.fn = "createLinkAuthActions" =>
        /\ Len(result) = Len(call.actions)
        /\ \A k \in 1..Len(call.actions) :
            /\ result[k].account = "eosio"
            /\ result[k].name = "linkauth"
            /\ result[k].data.account = call.account
            /\ result[k].data.code = call.contract
            /\ result[k].data.type = call.actions[k]
            /\ result[k].data.requirement = call.contract
\* two different actions of a contract outside the configuration
C15_Witness ==
    /\ call.fn = "createLinkAuthActions"
    /\ call.contract = "eosio.token"
    /\ call.actions = <<"claim", "play">>
    /\ Len(result) = 2

SetupTxFailed == pc = "cleanup"
C17_RaiseStep ==
    /\ (pc = "broadcast" /\ lastOp' = "loginTxFailed") => SetupTxFailed'
    /\ SetupTxFailed =>
           /\ pc' = "idle"
           /\ loginError'
           /\ li' = li
           /\ prompted' = prompted
           /\ ~RecordExists(CurrentContract)'
C17_Raised ==
    loginError => (pc = "idle" /\ ~RecordExists(CurrentContract))
C17_SetupFailureRaised == [](C17_Raised) /\ [][C17_RaiseStep]_vars
\* the second contract's setup transaction failed after the first one's
\* was accepted
C17_Witness ==
    /\ loginError
    /\ lastOp = "loginThrow"
    /\ li = 2
    /\ RecordExists("gamecontract") /\ RecordFlag("gamecontract") = TRUE
    /\ chain.auth["nftcontract"] = <<>>
    /\ ~RecordExists("nftcontract")

\* C18: a failure of a storage read, write or remove inside beforeSign,
\* afterLogin or teardown is thrown to the caller of that hook, never
\* swallowed; and after such a failure the storage holds no record marked
\* set up for a contract whose setup transaction was not accepted.
StorageFailureRaised ==
    lastOp \in {"beforeSignThrow", "teardownThrow", "loginStorageThrow"}
SetupAccepted(c) == chain.auth[c] = <<RecordPublicKey(c)>>
C18_NoSetUpRecordWithoutAcceptance ==
    StorageFailureRaised =>
        \A c \in Contracts :
            (RecordExists(c) /\ RecordFlag(c) = TRUE) => SetupAccepted(c)
C18_RaiseStep ==
    /\ lastOp' \in {"beforeSignThrow", "teardownThrow"} => pc' = "idle"
    /\ lastOp' = "loginStorageThrow" => (pc' = "idle" /\ loginError')
    /\ lastOp' \in {"loginHookThrow", "loginMarkThrow"} => pc' = "cleanup"
    /\ pc = "cleanup" => (pc' = "idle" /\ loginError')
C18_StorageFailureRaisedAndSafe ==
    /\ [](C18_NoSetUpRecordWithoutAcceptance)
    /\ [][C18_RaiseStep]_vars

\* C19: when a contract's stored key material is unreadable while a key is
\* expected (here: every contract the request targets has a record marked
\* set up whose private key is empty), beforeSign ends with an error: it
\* does not return normally, neither passing the request through nor
\* signing it.
KeyUnusable(c) == RecordExists(c) /\ storage[<<"localsession", "-", c>>][1] = <<>>
C19_HookReturnedOnUnusableKey ==
    /\ lastOp = "beforeSign"
    /\ hasStorage
    /\ lastTx # <<>>
    /\ \A k \in 1..Len(lastTx) : Qualifies(lastTx[k])
    /\ \A c \in Targets(lastTx) :
           RecordExists(c) /\ RecordFlag(c) = TRUE /\ KeyUnusable(c)
C19_UnreadableKeyRaises == ~C19_HookReturnedOnUnusableKey

\* C20: beforeSign is idempotent on an unresolved request: called twice in a
\* row on the same request with nothing in between, it gives the same
\* response both times and the storage after the second call is the storage
\* after the first.
C20_BeforeSignIdempotent ==
    pc = "idle" =>
        \A tx \in Transactions :
            LET first == beforeSign(Actor, storage, hasStorage, tx)
                second == beforeSign(Actor, first.storage, hasStorage, tx)
            IN  /\ second.response = first.response
                /\ second.storage = first.storage

\* C21: sessions that share one physical storage cannot collide: the key
\* record a session wrote for contract C is never used for signing,
\* overwritten or deleted by a session of another account.
SignedBy(resp) == resp # <<>> /\ resp[1].signatures # <<>>
C21_SignedWithOwnRecord ==
    (call.fn = "beforeSign" /\ SignedBy(result)) =>
        \E c \in Contracts :
            /\ RecordExists(c)
            /\ RecordPublicKey(c) = result[1].signatures[1].key
            /\ writer[c] = call.session
C21_OwnRecordStep ==
    \A c \in Contracts :
        (writer[c] # "none"
         /\ storage'[<<"localsession", "-", c>>] # storage[<<"localsession", "-", c>>])
            => call'.session = writer[c]
C21_SessionsDoNotCollide ==
    [](C21_SignedWithOwnRecord) /\ [][C21_OwnRecordStep]_vars

C23_SaveStep ==
    call'.fn = "saveLocalSigningData" =>
        /\ loadLocalSigningData(storage', call'.contract) = <<call'.data>>
        /\ \A other \in Contracts \ {call'.contract} :
               loadLocalSigningData(storage', other) =
                   loadLocalSigningData(storage, other)
C23_DeleteStep ==
    call'.fn = "deleteLocalSigningData" =>
        /\ loadLocalSigningData(storage', call'.contract) = <<>>
        /\ \A other \in Contracts \ {call'.contract} :
               loadLocalSigningData(storage', other) =
                   loadLocalSigningData(storage, other)
C23_LoadStep ==
    call'.fn = "loadLocalSigningData" =>
        /\ storage' = storage
        /\ ~RecordExists(call'.contract) => result' = <<>>
        /\ RecordExists(call'.contract) => result' # <<>>
StoredKeyText(c) == storage[<<"localsession", "-", c>>][1]
C24_StoredKeyObfuscated ==
    \A c \in Contracts :
        RecordExists(c) =>
            \/ StoredKeyText(c) = <<>>
            \/ StoredKeyText(c)[1] # "PVT_K1_"

\* C25: an action matches exactly when some config entry has the action's
\* account as its contract and the action's name in its action list; the
\* answer is the same for every order of the entries and when a contract
\* has more than one entry.
EntryMatches(entry, action) ==
    entry.contract = action.account /\ action.name \in Range(entry.actions)
C25_MatchesIffSomeEntry ==
    call.fn = "isLocalSigningAction" =>
        /\ result = (\E entry \in Range(call.configs) : EntryMatches(entry, call.action))
        /\ \A other \in ConfigLists :
               Range(other) = Range(call.configs)
                   => isLocalSigningActionOf(other, call.action) = result
\* the contract has two entries and only the second lists the action
C25_Witness ==
    /\ call.fn = "isLocalSigningAction"
    /\ Len(call.configs) = 2
    /\ call.configs[1] = [contract |-> "gamecontract", actions |-> <<"play">>]
    /\ call.configs[2] = [contract |-> "gamecontract", actions |-> <<"claim", "play">>]
    /\ call.action.account = "gamecontract"
    /\ call.action.name = "claim"
    /\ result = TRUE

\* C26: every approved setup generates a fresh key: two contracts never
\* hold the same key, and a key that is stored was generated by that very
\* step and is none of the keys generated before it, so a retry after a
\* failed setup never reuses the key of the failed attempt.  (Two calls of
\* PrivateKey.generate are taken to return different keys.)
C26_DistinctKeys ==
    \A c1, c2 \in Contracts :
        (c1 # c2 /\ RecordExists(c1) /\ RecordExists(c2))
            => StoredKeyText(c1) # StoredKeyText(c2)
\* every key that was stored or installed is one of the keys issued so far
C26_IssuedBefore ==
    \A c \in Contracts :
        /\ RecordExists(c) => StoredKeyText(c)[2] < nextKey
        /\ chain.auth[c] # <<>> => chain.auth[c][1][2] < nextKey
C26_FreshStep ==
    \A c \in Contracts :
        (RecordExists(c)' /\ (~RecordExists(c) \/ StoredKeyText(c)' # StoredKeyText(c)))
            => /\ StoredKeyText(c)' = <<"PVT_K1_", nextKey>>
               /\ nextKey' = nextKey + 1
C26_FreshKeyPerSetup ==
    [](C26_DistinctKeys /\ C26_IssuedBefore) /\ [][C26_FreshStep]_vars
\* the retry of a contract whose earlier setup failed is about to send its
\* setup transaction with the second key
C26_Witness ==
    /\ pc = "transact"
    /\ li = 1
    /\ CurrentContract \in failed
    /\ RecordExists(CurrentContract)
    /\ StoredKeyText(CurrentContract) = <<"PVT_K1_", 2>>

\* C27: a beforeSign call that has a storage takes exactly one of three
\* outcomes, decided in this order: if some configured contract has a
\* record pending setup it injects the setup actions; otherwise, if every
\* action qualifies and a contract of the request has an Active key (a
\* record marked set up), it signs locally; otherwise it changes nothing.
HookCallStep ==
    \/ pc = "idle" /\ lastOp' = "beforeSign"
    \/ pc = "transact" /\ lastOp' = "loginTransact"
PendingRecord(c) == RecordExists(c) /\ RecordFlag(c) = FALSE
ActiveRecord(c) ==
    RecordExists(c) /\ RecordFlag(c) = TRUE /\ StoredKeyText(c) # <<>>
AllQualify(tx) == \A k \in 1..Len(tx) : Qualifies(tx[k])
InjectedIn(resp, tx) ==
    /\ resp # <<>>
    /\ resp[1].signatures = <<>>
    /\ Len(resp[1].request) > Len(tx)
    /\ SubSeq(resp[1].request, Len(resp[1].request) - Len(tx) + 1,
              Len(resp[1].request)) = tx
SignedIn(resp, tx) ==
    resp # <<>> /\ Len(resp[1].signatures) = 1 /\ resp[1].request = tx
C27_OutcomeStep ==
    (HookCallStep /\ hasStorage) =>
        IF \E c \in Contracts : PendingRecord(c)
        THEN InjectedIn(response', lastTx')
        ELSE IF AllQualify(lastTx') /\ \E c \in Targets(lastTx') : ActiveRecord(c)
        THEN SignedIn(response', lastTx') /\ storage' = storage
        ELSE response' = <<>> /\ storage' = storage
C27_ThreeOutcomesInOrder == [][C27_OutcomeStep]_vars
\* injection took precedence: the request qualified under gamecontract's
\* installed key, and the hook injected nftcontract's pending setup
C27_Witness ==
    /\ lastOp = "beforeSign"
    /\ Len(lastTx) = 1
    /\ lastTx[1].account = "gamecontract" /\ lastTx[1].name = "play"
    /\ ActiveRecord("gamecontract")
    /\ chain.auth["gamecontract"] = <<RecordPublicKey("gamecontract")>>
    /\ InjectedIn(response, lastTx)
    /\ response[1].request[1].data.permission = "nftcontract"

\* C28: when several configured contracts are eligible for setup injection
\* at one transact attempt, the hook injects the install action and the
\* link actions of exactly one contract, the first eligible one in
\* configuration order, and leaves the records of the others unchanged.
EligibleIdx == {i \in ConfigIdx : PendingRecord(actionConfigs[i].contract)}
C28_InjectStep ==
    (HookCallStep /\ hasStorage /\ EligibleIdx # {}) =>
        LET first == CHOOSE i \in EligibleIdx : \A j \in EligibleIdx : i <= j
            c == actionConfigs[first].contract
            injected == SubSeq(response'[1].request, 1,
                               Len(response'[1].request) - Len(lastTx'))
        IN  /\ InjectedIn(response', lastTx')
            /\ Len(injected) = 1 + Len(actionConfigs[first].actions)
            /\ injected[1].name = "updateauth"
            /\ injected[1].data.permission = c
            /\ injected[1].data.auth.keys[1].key = RecordPublicKey(c)
            /\ \A k \in 2..Len(injected) :
                   /\ injected[k].name = "linkauth"
                   /\ injected[k].data.code = c
            /\ \A other \in Contracts \ {c} :
                   storage'[<<"localsession", "-", other>>] =
                       storage[<<"localsession", "-", other>>]
C28_OnlyFirstEligibleInjected == [][C28_InjectStep]_vars
\* two contracts were pending; the hook injected the first one's setup and
\* the second one's record is still pending
C28_Witness ==
    /\ lastOp = "beforeSign"
    /\ InjectedIn(response, lastTx)
    /\ UpdatedPermissions(response[1].request) = {"gamecontract"}
    /\ ActiveRecord("gamecontract")
    /\ PendingRecord("nftcontract")

\* C29: the hook signs locally only when all actions qualify under a single
\* Active key: every action of a locally signed request targets the one
\* contract whose stored key made the signature.
C29_SignedUnderSingleKey ==
    (HookRan /\ Signed) =>
        \E c \in Contracts :
            /\ ActiveRecord(c)
            /\ RecordPublicKey(c) = response[1].signatures[1].key
            /\ \A k \in 1..Len(lastTx) : lastTx[k].account = c

\* C30: if the request with the injected setup actions is rejected by the
\* wallet or not broadcast, the user can retry: the contract is not treated
\* as set up, its record is still pending so that a later transact injects
\* the setup again, and no local signature is made with a contract's key
\* before a setup transaction installing that key was accepted.
C30_RejectedStep ==
    (pc = "wallet" /\ origin = "user" /\ lastOp' = "transactRejected") =>
        \A c \in UpdatedPermissions(inflight) :
            /\ ~isSetupOf(storage', hasStorage, c)
            /\ storage'[<<"localsession", "-", c>>] # <<>>
            /\ storage'[<<"localsession", "-", c>>][3] = FALSE
C30_SignedAfterAcceptance ==
    (HookRan /\ Signed) =>
        \E c \in Contracts : chain.auth[c] = <<response[1].signatures[1].key>>
C30_RetryAfterRejectedInjection ==
    [](C30_SignedAfterAcceptance) /\ [][C30_RejectedStep]_vars

\* ------------------------------------------- afterLogin without a session
\* ctxWithSession.session is undefined: afterLogin stops after the first
\* save (index.ts 520, 547) and the steps of the try block never run
NextNoSession ==
    \/ TransactBeforeSign
    \/ TransactOutcome
    \/ Teardown
    \/ AfterLoginStart
    \/ LoginCheck
    \/ LoginPrompt
    \/ LoginSave

SpecNoSession == InitShared /\ [][NextNoSession]_vars

\* C31: when afterLogin runs without access to the session and the user
\* approves contract C, a record for C is stored as pending and no setup
\* transaction is sent; the first later beforeSign returns a replaced
\* request whose actions are the install action for C, one link action per
\* configured action of C, then the original actions in their order, and
\* no local signature.
ConfiguredActionsOf(c) ==
    actionConfigs[CHOOSE i \in ConfigIdx : actionConfigs[i].contract = c].actions
SetupThenOriginal(req, c, key, tx) ==
    LET listed == ConfiguredActionsOf(c)
    IN  /\ Len(req) = 1 + Len(listed) + Len(tx)
        /\ req[1].account = "eosio"
        /\ req[1].name = "updateauth"
        /\ req[1].data.permission = c
        /\ req[1].data.auth.keys[1].key = key
        /\ \A k \in 1..Len(listed) :
               /\ req[1 + k].account = "eosio"
               /\ req[1 + k].name = "linkauth"
               /\ req[1 + k].data.code = c
               /\ req[1 + k].data.type = listed[k]
        /\ \A k \in 1..Len(tx) : req[1 + Len(listed) + k] = tx[k]
C31_SaveStep ==
    (pc = "save" /\ ~hasSession /\ lastOp' = "loginSave") =>
        LET stored == storage'[<<"localsession", "-", actionConfigs[li].contract>>]
        IN  /\ stored # <<>>
            /\ stored[3] = FALSE
            /\ inflight' = <<>>
            /\ chain' = chain
            /\ pc' = "check"
FirstHookAfterLogin ==
    /\ pc = "idle"
    /\ lastOp = "afterLoginReturn"
    /\ ~hasSession
    /\ lastOp' = "beforeSign"
C31_ApprovedInjectedStep ==
    FirstHookAfterLogin =>
        \A c \in Range(prompted) :
            PendingRecord(c) =>
                /\ response' # <<>>
                /\ response'[1].signatures = <<>>
                /\ SetupThenOriginal(response'[1].request, c,
                                     RecordPublicKey(c), lastTx')
C31_FirstPendingInjectedStep ==
    (FirstHookAfterLogin /\ EligibleIdx # {}) =>
        LET first == CHOOSE i \in EligibleIdx : \A j \in EligibleIdx : i <= j
            c == actionConfigs[first].contract
        IN  /\ response' # <<>>
            /\ response'[1].signatures = <<>>
            /\ SetupThenOriginal(response'[1].request, c,
                                 RecordPublicKey(c), lastTx')
C31_ApprovedPending ==
    (pc = "idle" /\ lastOp = "afterLoginReturn" /\ ~hasSession) =>
        \A c \in approved \cap Range(prompted) : PendingRecord(c)
ConsentRequested(c, position, asked) == position = "prompt" \/ c \in Range(asked)
C32_ConsentStep ==
    (pc = "idle" /\ lastOp' = "beforeSign" /\ hasStorage) =>
        \A k \in 1..Len(lastTx') :
            (Qualifies(lastTx'[k]) /\ ~RecordExists(lastTx'[k].account))
                => ConsentRequested(lastTx'[k].account, pc', prompted')
C32_QualifyingActionPrompts == [][C32_ConsentStep]_vars

\* C33: when beforeSign signs locally it returns the original request
\* unchanged together with exactly one signature, made over the
\* transaction's signing digest for the session's chain id with the stored
\* key of a contract that some action of the transaction targets; the key
\* of a contract the transaction does not target is never used.
DigestOf(tx) == <<ChainId, tx>>
C33_SignsWithTargetedKey ==
    (HookRan /\ Signed) =>
        /\ response[1].request = lastTx
        /\ Len(response[1].signatures) = 1
        /\ response[1].signatures[1].digest = DigestOf(lastTx)
        /\ \E c \in Targets(lastTx) \cap Contracts :
               /\ RecordExists(c)
               /\ response[1].signatures[1].key = RecordPublicKey(c)
        /\ \A c \in Contracts \ Targets(lastTx) :
               RecordExists(c) => response[1].signatures[1].key # RecordPublicKey(c)
\* both contracts are set up; a transaction that targets nftcontract only
\* was signed with nftcontract's key
C33_Witness ==
    /\ lastOp = "beforeSign"
    /\ Signed
    /\ Targets(lastTx) = {"nftcontract"}
    /\ ActiveRecord("gamecontract")
    /\ ActiveRecord("nftcontract")
    /\ response[1].signatures[1].key = RecordPublicKey("nftcontract")
    /\ response[1].signatures[1].key # RecordPublicKey("gamecontract")

\* ------------------------------------------- concurrent afterLogin flows
\* Two invocations of afterLogin on the same session and storage.  Every
\* await of the hook (storage read, prompt, storage write, transact,
\* storage delete) is a point where the other invocation can run.
raceRest == <<envVars, approved, failed, pc, loginVars, inflight, origin,
              lastTx, response, lastOp, call, result, writer>>

FlowContract(f) == actionConfigs[flows[f].li].contract

RaceStart(f) ==
    /\ flows[f].pc = "idle"
    /\ flows' = [flows EXCEPT ![f] = [FlowIdle EXCEPT !.pc = "check", !.li = 1]]
    /\ UNCHANGED <<raceRest, storage, nextKey, chain>>

RaceCheck(f) ==
    /\ flows[f].pc = "check"
    /\ flows' =
          [flows EXCEPT ![f] =
              IF flows[f].li > Len(actionConfigs)
              THEN [@ EXCEPT !.pc = "done"]
              ELSE IF HasPrivateKey(loadLocalSigningData(storage, FlowContract(f)))
              THEN [@ EXCEPT !.li = @ + 1]
              ELSE [@ EXCEPT !.pc = "prompt"]]
    /\ UNCHANGED <<raceRest, storage, nextKey, chain>>

RacePrompt(f) ==
    /\ flows[f].pc = "prompt"
    /\ \E answer \in PromptAnswers :
          IF UserApproved(answer)
          THEN /\ nextKey + Cardinality({g \in Flows : flows[g].pc = "save"})
                      <= MaxKeys
               /\ flows' = [flows EXCEPT ![f].pc = "save"]
          ELSE flows' = [flows EXCEPT ![f].pc = "check", ![f].li = @ + 1]
    /\ UNCHANGED <<raceRest, storage, nextKey, chain>>

RaceSave(f) ==
    /\ flows[f].pc = "save"
    /\ LET pair == generateLocalKey(nextKey)
           fresh == [privateKey |-> pair.privateKey,
                     publicKey |-> pair.publicKey,
                     permissionSetup |-> FALSE]
       IN  /\ flows' = [flows EXCEPT ![f].localData = <<fresh>>,
                                     ![f].pc = "transact"]
           /\ storage' = saveLocalSigningData(storage, FlowContract(f), fresh)
    /\ nextKey' = nextKey + 1
    /\ UNCHANGED <<raceRest, chain>>

RaceTransact(f) ==
    /\ flows[f].pc = "transact"
    /\ LET config == actionConfigs[flows[f].li]
           updateAuthAction ==
               createUpdateAuthAction(Actor, config.contract,
                                      flows[f].localData[1].publicKey, "active")
           linkAuthActions ==
               createLinkAuthActions(Actor, config.contract, config.actions)
           setup == <<updateAuthAction>> \o linkAuthActions
           r == beforeSign(Actor, storage, hasStorage, setup)
       IN  /\ storage' = r.storage
           /\ flows' =
                 [flows EXCEPT ![f].pc = "broadcast",
                               ![f].inflight =
                                   IF r.response # <<>> THEN r.response[1].request
                                   ELSE setup]
    /\ UNCHANGED <<raceRest, nextKey, chain>>

RaceTxOutcome(f) ==
    /\ flows[f].pc = "broadcast"
    /\ \E ok \in BOOLEAN :
          IF ok
          THEN /\ chain' = ApplyActions(chain, flows[f].inflight, 1)
               /\ flows' = [flows EXCEPT ![f].pc = "mark", ![f].inflight = <<>>]
          ELSE /\ chain' = chain
               /\ flows' = [flows EXCEPT ![f].pc = "cleanup", ![f].inflight = <<>>]
    /\ UNCHANGED <<raceRest, storage, nextKey>>

RaceMark(f) ==
    /\ flows[f].pc = "mark"
    /\ LET marked == [flows[f].localData[1] EXCEPT !.permissionSetup = TRUE]
       IN  /\ storage' = saveLocalSigningData(storage, FlowContract(f), marked)
           /\ flows' = [flows EXCEPT ![f].localData = <<marked>>,
                                     ![f].pc = "check",
                                     ![f].li = @ + 1]
    /\ UNCHANGED <<raceRest, nextKey, chain>>

RaceCleanup(f) ==
    /\ flows[f].pc = "cleanup"
    /\ storage' = deleteLocalSigningData(storage, FlowContract(f))
    /\ flows' = [flows EXCEPT ![f].pc = "done", ![f].error = TRUE]
    /\ UNCHANGED <<raceRest, nextKey, chain>>

InitRace == Init /\ hasStorage /\ hasSession /\ ~hasBrowserStorage

NextRace ==
    \E f \in Flows :
        \/ RaceStart(f)
        \/ RaceCheck(f)
        \/ RacePrompt(f)
        \/ RaceSave(f)
        \/ RaceTransact(f)
        \/ RaceTxOutcome(f)
        \/ RaceMark(f)
        \/ RaceCleanup(f)

SpecRace == InitRace /\ [][NextRace]_vars

\* C34: two concurrent afterLogin flows that share the storage and set up
\* the same contract do not race: under every interleaving, a record left
\* marked set up in storage holds the key that the last accepted setup
\* transaction installed on chain, and a failure of one flow never removes
\* or invalidates the record of the other flow's accepted setup.
FlowsAtRest == \A f \in Flows : flows[f].pc \in {"idle", "done"}
C34_RecordMatchesChain ==
    FlowsAtRest =>
        \A c \in Contracts :
            ActiveRecord(c) => chain.auth[c] = <<RecordPublicKey(c)>>
C34_FailureStep ==
    \A f \in Flows :
        (flows[f].pc = "cleanup" /\ flows'[f].pc = "done") =>
            \A c \in Contracts :
                (/\ ActiveRecord(c)
                 /\ chain.auth[c] = <<RecordPublicKey(c)>>
                 /\ RecordPublicKey(c) # flows[f].localData[1].publicKey)
                    => storage'[<<"localsession", "-", c>>] =
                           storage[<<"localsession", "-", c>>]
C34_ConcurrentLoginsDoNotRace ==
    [](C34_RecordMatchesChain) /\ [][C34_FailureStep]_vars

\* --------------------------------------------- afterLogin with a session
\* ctx.session is set.  Every await of afterLogin (storage, prompt, key
\* generation, session.transact) resolves or rejects: the hook is one async
\* function with no loop other than the one over the configs, so a step
\* that can be taken is taken.
InitWithSession == Init /\ hasSession

LoginStep ==
    \/ LoginCheck
    \/ LoginPrompt
    \/ LoginSave
    \/ LoginTransact
    \/ LoginTxOutcome
    \/ LoginMark
    \/ LoginCleanup

SpecWithSession == InitWithSession /\ [][Next]_vars /\ WF_vars(LoginStep)

\* C35: no pending record outlives a hook invocation when the session is
\* available: whenever afterLogin has returned or raised (no storage
\* operation having failed), every configured contract either has no record
\* or has a record marked set up whose setup transaction was accepted; and
\* every afterLogin invocation eventually returns or raises.
InAfterLogin ==
    pc \in {"check", "prompt", "save", "transact", "broadcast", "mark", "cleanup"}
C35_NoPendingAtEnd ==
    (hasSession /\ LoginEnded) =>
        \A c \in Contracts :
            \/ ~RecordExists(c)
            \/ RecordFlag(c) = TRUE /\ chain.auth[c] = <<RecordPublicKey(c)>>
C35_NoPendingOutlivesLogin ==
    /\ [](C35_NoPendingAtEnd)
    /\ (InAfterLogin ~> LoginEnded)
\* afterLogin ended by raising on the second contract after the first was
\* set up in the same invocation
C35_Witness ==
    /\ hasSession
    /\ LoginEnded
    /\ loginError
    /\ prompted = <<"gamecontract", "nftcontract">>
    /\ RecordExists("gamecontract")
    /\ RecordFlag("gamecontract") = TRUE
    /\ chain.auth["gamecontract"] = <<RecordPublicKey("gamecontract")>>
    /\ ~RecordExists("nftcontract")

\* C36: the setup transaction that afterLogin submits through the session
\* reaches signing with each setup action exactly once: when it passes
\* through this plugin's beforeSign hook while the contract's record is
\* still pending, the hook adds no second install action and no further
\* link actions.
CountNamed(actions, name) ==
    Cardinality({k \in 1..Len(actions) :
                    actions[k].account = "eosio" /\ actions[k].name = name})
C36_SetupActionsOnce ==
    lastOp = "loginTransact" =>
        /\ CountNamed(inflight, "updateauth") = 1
        /\ CountNamed(inflight, "linkauth")
               = Len(ConfiguredActionsOf(actionConfigs[li].contract))

\* C37: once the record of contract C is marked set up it stays unchanged
\* through any sequence of beforeSign and afterLogin invocations: the
\* local-signing and pass-through outcomes of beforeSign write nothing,
\* afterLogin skips C, and only teardown removes the record.
StoredText(st, c) == st[<<"localsession", "-", c>>]
C37_KeepStep ==
    \A c \in Contracts :
        ActiveRecord(c) =>
            \/ StoredText(storage', c) = StoredText(storage, c)
            \/ lastOp' = "teardown"
C37_QuietOutcomeStep ==
    (HookCallStep /\ (response' = <<>> \/ response'[1].signatures # <<>>))
        => storage' = storage
C37_SkipStep ==
    (pc = "check" /\ li \in ConfigIdx /\ ActiveRecord(actionConfigs[li].contract))
        => (pc' = "check" /\ li' = li + 1 /\ nextKey' = nextKey)
C37_SetUpRecordStable ==
    [][C37_KeepStep /\ C37_QuietOutcomeStep /\ C37_SkipStep]_vars

\* C38: after teardown, and until a later afterLogin in which the user
\* approves again, beforeSign returns nothing for every transaction: no
\* local signature and no injected setup actions.
NoApprovalSinceTeardown == approved = {}
C38_NothingAfterTeardown ==
    (lastOp = "beforeSign" /\ NoApprovalSinceTeardown) =>
        /\ response = <<>>
        /\ inflight = lastTx
\* gamecontract was set up on chain, the session was torn down, and the
\* hook was then handed a transaction of gamecontract's configured actions
C38_Witness ==
    /\ lastOp = "beforeSign"
    /\ hasStorage
    /\ NoApprovalSinceTeardown
    /\ chain.auth["gamecontract"] # <<>>
    /\ AllQualify(lastTx)
    /\ Targets(lastTx) = {"gamecontract"}
    /\ response = <<>>

\* C39: when the setup of the k-th configured contract fails inside
\* afterLogin, the records of the contracts set up successfully earlier in
\* the same invocation stay marked set up, the failing contract is left
\* with no record, and the contracts later in configuration order are
\* neither prompted nor given a key in that invocation.
LoginRaised == pc = "idle" /\ lastOp = "loginThrow"
C39_AfterFailure ==
    LoginRaised =>
        /\ \A i \in 1..(li - 1) :
               LET c == actionConfigs[i].contract
               IN  (c \in Range(prompted) /\ RecordExists(c)) =>
                       /\ ActiveRecord(c)
                       /\ chain.auth[c] = <<RecordPublicKey(c)>>
        /\ ~RecordExists(actionConfigs[li].contract)
        /\ \A i \in (li + 1)..Len(actionConfigs) :
               actionConfigs[i].contract \notin Range(prompted)
C39_LaterUntouchedStep ==
    (InAfterLogin /\ li \in ConfigIdx) =>
        /\ \A i \in (li + 1)..Len(actionConfigs) :
               StoredText(storage', actionConfigs[i].contract)
                   = StoredText(storage, actionConfigs[i].contract)
        /\ pc = "cleanup" =>
               \A i \in 1..(li - 1) :
                   StoredText(storage', actionConfigs[i].contract)
                       = StoredText(storage, actionConfigs[i].contract)
C39_FailureStopsAtFailingContract ==
    [](C39_AfterFailure) /\ [][C39_LaterUntouchedStep]_vars
\* the second contract's setup transaction was rejected after the first
\* contract was set up, in one invocation that used two fresh keys
C39_Witness ==
    /\ LoginRaised
    /\ li = 2
    /\ nextKey = 3
    /\ approved = {"gamecontract", "nftcontract"}
    /\ prompted = <<"gamecontract", "nftcontract">>
    /\ ActiveRecord("gamecontract")
    /\ ~RecordExists("nftcontract")
====
